---------------------------- MODULE Spec2Model ----------------------------
(***************************************************************************)
(* GitHubSentinel: the generic site-scraping client (custom_site_client.py)*)
(* and the UI handler that registers ad-hoc sites (gradio_server.py).      *)
(*                                                                         *)
(* Text is a sequence of tokens.  " " is a whitespace token; a URL is the  *)
(* token sequence  "https:" "//" host... "/" segment "/" segment ...       *)
(* A parsed document is a sequence of elements [tag, attrs, text,          *)
(* children]; a simple selector is the one-token text naming a tag.        *)
(***************************************************************************)
EXTENDS Integers, Sequences, FiniteSets, TLC

VARIABLES
    site_configs,   \* CustomSiteClient.site_configs: insertion-ordered dict
    fs,             \* the files under custom_sites/: path -> sequence of lines
    last,           \* the last client call: its arguments and its outcome
    firstReg,       \* history: names in the order of their first registration
    lastReg,        \* history: name -> the config most recently registered
    html,           \* _parse_items: the parsed document handed in
    config,         \* _parse_items: the SiteConfig handed in
    parsed,         \* _parse_items: the returned list
    ppc,            \* _parse_items: "ready" before the call, "done" after
    thr             \* concurrent exports: per thread, position and buffer

vars == <<site_configs, fs, last, firstReg, lastReg,
          html, config, parsed, ppc, thr>>

---------------------------------------------------------------------------
\* Text

WS == " "

\* Python None, kept apart from every text (no text holds this token)
None == <<"<None>">>

\* Python truthiness of an optional string: None and "" are falsy
Truthy(s) == s # None /\ s # <<>>

\* a or b
Or(a, b) == IF Truthy(a) THEN a ELSE b

RECURSIVE LStrip(_)
LStrip(s) == IF s # <<>> /\ Head(s) = WS THEN LStrip(Tail(s)) ELSE s

RECURSIVE RStrip(_)
RStrip(s) ==
    IF s # <<>> /\ s[Len(s)] = WS THEN RStrip(SubSeq(s, 1, Len(s) - 1)) ELSE s

\* str.strip(), and the strip=True of get_text
Strip(s) == RStrip(LStrip(s))

\* str.replace(old, new) for one-token old and new
Replace(s, old, new) == [i \in 1..Len(s) |-> IF s[i] = old THEN new ELSE s[i]]

\* str.lower(), token by token
LowerTok(t) ==
    CASE t = "OpenAI" -> "openai"
      [] t = "Blog" -> "blog"
      [] t = "Site" -> "site"
      [] OTHER -> t

Lower(s) == [i \in 1..Len(s) |-> LowerTok(s[i])]

---------------------------------------------------------------------------
\* urllib.parse

Schemes == {"https:", "http:"}

\* index of the first "/" token of s at or after i, Len(s)+1 when none
RECURSIVE FindSlash(_, _)
FindSlash(s, i) ==
    IF i > Len(s) \/ s[i] = "/" THEN i ELSE FindSlash(s, i + 1)

\* index of the last "/" token of s at or before i, 0 when none
RECURSIVE RFindSlash(_, _)
RFindSlash(s, i) ==
    IF i = 0 \/ s[i] = "/" THEN i ELSE RFindSlash(s, i - 1)

\* urlparse(url): scheme, netloc and path ("" is <<>>)
urlparse(url) ==
    LET hasScheme == url # <<>> /\ Head(url) \in Schemes
        scheme == IF hasScheme THEN <<Head(url)>> ELSE <<>>
        rest == IF hasScheme THEN Tail(url) ELSE url
        hasNetloc == rest # <<>> /\ Head(rest) = "//"
        stop == FindSlash(rest, 2)
    IN  [scheme |-> scheme,
         netloc |-> IF hasNetloc THEN SubSeq(rest, 2, stop - 1) ELSE <<>>,
         path |-> IF hasNetloc THEN SubSeq(rest, stop, Len(rest)) ELSE rest]

urlunparse(scheme, netloc, path) ==
    scheme \o (IF netloc # <<>> THEN <<"//">> \o netloc ELSE <<>>) \o path

\* urljoin(base, url) on http(s) bases, URLs without query, fragment or dots
urljoin(base, url) ==
    IF base = <<>> THEN url
    ELSE IF url = <<>> THEN base
    ELSE LET b == urlparse(base)
             u == urlparse(url)
             scheme == IF u.scheme = <<>> THEN b.scheme ELSE u.scheme
             \* base_parts: the base path without its last segment
             dir == IF b.path = <<>> THEN <<"/">>
                    ELSE SubSeq(b.path, 1, RFindSlash(b.path, Len(b.path)))
         IN  IF scheme # b.scheme THEN url
             ELSE IF u.netloc # <<>> THEN urlunparse(scheme, u.netloc, u.path)
             ELSE IF u.path = <<>> THEN urlunparse(scheme, b.netloc, b.path)
             ELSE IF Head(u.path) = "/" THEN urlunparse(scheme, b.netloc, u.path)
             ELSE urlunparse(scheme, b.netloc, dir \o u.path)

---------------------------------------------------------------------------
\* BeautifulSoup trees

\* Tag.get(name, default)
GetAttr(el, name, default) ==
    LET m == {a \in el.attrs : a.name = name}
    IN  IF m = {} THEN default ELSE (CHOOSE a \in m : TRUE).value

\* Tag.get_text(strip=True) of an element holding one text
get_text(el) == Strip(el.text)

\* the elements of seq matching the selector, in document order
select(seq, selector) == SelectSeq(seq, LAMBDA el : <<el.tag>> = selector)

\* Tag.select_one: the first match as a one-element sequence, <<>> for None
select_one(node, selector) ==
    LET m == select(node.children, selector)
    IN  IF m = <<>> THEN <<>> ELSE <<Head(m)>>

---------------------------------------------------------------------------
\* CustomSiteClient._parse_items

\* the dataclass SiteConfig
SiteConfig(name, url, item_sel, title_sel, link_sel, summary_sel, base_url) ==
    [name |-> name, url |-> url, item_selector |-> item_sel,
     title_selector |-> title_sel, link_selector |-> link_sel,
     summary_selector |-> summary_sel, base_url |-> base_url]

\* the base with base_url overlooked
LinkBaseAlwaysUrl(cfg) == cfg.url

\* config.base_url or config.url
LinkBase(cfg) == Or(cfg.base_url, cfg.url)

\* the link node of an item node
LinkNode(node, cfg, title_node) ==
    IF Truthy(cfg.link_selector) THEN select_one(node, cfg.link_selector)
    ELSE title_node

\* raw_link without the fallback to the text
RawLinkHrefOnly(link_node) ==
    IF link_node = <<>> THEN <<>>
    ELSE Strip(Or(GetAttr(link_node[1], "href", <<>>), <<>>))

\* raw_link: the trimmed href, or the trimmed text when that is empty
RawLink(link_node) ==
    IF link_node = <<>> THEN <<>>
    ELSE LET href == Strip(Or(GetAttr(link_node[1], "href", <<>>), <<>>))
         IN  IF href = <<>> THEN get_text(link_node[1]) ELSE href

\* the gate left open
TitleGateOpen(title) == TRUE

\* if title: the acceptance gate of the loop body
TitleGate(title) == title # <<>>

\* one pass of the loop body: parsed_items after the node
ParseNode(node, cfg, parsed_items) ==
    LET title_node == select_one(node, cfg.title_selector)
    IN  IF title_node = <<>> THEN parsed_items
        ELSE LET link_node == LinkNode(node, cfg, title_node)
                 raw_link == RawLink(link_node)
                 full_link == IF raw_link # <<>>
                              THEN urljoin(LinkBase(cfg), raw_link) ELSE <<>>
                 title == get_text(title_node[1])
                 summary_node == IF Truthy(cfg.summary_selector)
                                 THEN select_one(node, cfg.summary_selector)
                                 ELSE <<>>
                 summary == IF summary_node # <<>>
                            THEN get_text(summary_node[1]) ELSE <<>>
             IN  IF TitleGate(title)
                 THEN Append(parsed_items,
                             [title |-> title, link |-> full_link,
                              summary |-> summary])
                 ELSE parsed_items

\* for node in item_nodes
RECURSIVE ParseLoop(_, _, _, _)
ParseLoop(item_nodes, cfg, i, parsed_items) ==
    IF i > Len(item_nodes) THEN parsed_items
    ELSE ParseLoop(item_nodes, cfg, i + 1,
                   ParseNode(item_nodes[i], cfg, parsed_items))

\* the loop putting each new Item in front
RECURSIVE ParseLoopNewestFirst(_, _, _, _)
ParseLoopNewestFirst(item_nodes, cfg, i, parsed_items) ==
    IF i > Len(item_nodes) THEN parsed_items
    ELSE ParseLoopNewestFirst(item_nodes, cfg, i + 1,
                   ParseNode(item_nodes[i], cfg, <<>>) \o parsed_items)

ParseAllNewestFirst(soup, cfg) ==
    ParseLoopNewestFirst(select(soup, cfg.item_selector), cfg, 1, <<>>)

\* _parse_items on the parsed document
ParseAll(soup, cfg) == ParseLoop(select(soup, cfg.item_selector), cfg, 1, <<>>)


---------------------------------------------------------------------------
\* Inputs of _parse_items

MaxNodes == 3

El(tag, attrs, text) ==
    [tag |-> tag, attrs |-> attrs, text |-> text, children |-> <<>>]

Node(tag, children) ==
    [tag |-> tag, attrs |-> {}, text |-> <<>>, children |-> children]

Href(v) == {[name |-> "href", value |-> v]}

SiteUrl == <<"https:", "//", "site", ".", "com", "/", "news", "/", "idx">>
BaseUrl == <<"https:", "//", "base", ".", "org", "/", "b", "/">>
AbsLink == <<"https:", "//", "o", ".", "com", "/", "x">>

\* item nodes that differ in their title only
SimpleNodes ==
    { Node("item", <<El("title", {}, <<"A">>)>>),
      Node("item", <<El("title", {}, <<WS, "B", WS>>)>>),
      Node("item", <<El("description", {}, <<"D">>)>>),
      Node("item", <<El("title", {}, <<WS>>)>>),
      Node("item", <<El("title", {}, <<>>), El("title", {}, <<"A">>)>>),
      Node("div", <<El("title", {}, <<"A">>)>>) }

LinkAttrs == { {}, Href(<<WS>>), Href(<<WS, "/", "p", WS>>), Href(<<"p">>) }
LinkTexts == { <<>>, <<WS>> \o AbsLink \o <<WS>> }
LinkEls == { El("a", at, tx) : at \in LinkAttrs, tx \in LinkTexts }

\* item nodes with a title and every kind of link node and summary node
RichNodes ==
    { Node("item", <<El("title", {}, <<WS, "T">>)>> \o l \o s) :
        l \in {<<>>} \cup { <<e>> : e \in LinkEls }
               \cup { <<El("a", {}, <<>>), El("a", Href(<<"/", "p">>), <<"L">>)>> },
        s \in { <<>>, <<El("description", {}, <<"D", WS>>)>> } }

SeqsUpTo(S, n) == UNION { [1..k -> S] : k \in 0..n }

Docs ==
    SeqsUpTo(SimpleNodes, MaxNodes)
      \cup { <<r>> : r \in RichNodes }
      \cup { <<Node("item", <<>>), r>> : r \in RichNodes }

ParseConfigs ==
    { SiteConfig(<<"site">>, SiteUrl, <<"item">>, ts, ls, ss, bu) :
        ts \in { <<"title">>, <<"a">> },
        ls \in { <<"a">>, <<>> },
        ss \in { None, <<"description">> },
        bu \in { None, BaseUrl } }

---------------------------------------------------------------------------
\* The state after CustomSiteClient() is constructed

\* an assignment that moves a present key to the end
DictSetMovingToEnd(d, key, value) ==
    SelectSeq(d, LAMBDA e : e.key # key) \o <<[key |-> key, value |-> value]>>

\* dict[key] = value: a present key keeps its place
DictSet(d, key, value) ==
    IF \E i \in 1..Len(d) : d[i].key = key
    THEN [i \in 1..Len(d) |->
            IF d[i].key = key THEN [key |-> key, value |-> value] ELSE d[i]]
    ELSE Append(d, [key |-> key, value |-> value])

DictHas(d, key) == \E i \in 1..Len(d) : d[i].key = key

\* dict.get(key): the value, None when absent
DictGet(d, key) ==
    IF DictHas(d, key)
    THEN d[CHOOSE i \in 1..Len(d) : d[i].key = key].value
    ELSE None

DictKeys(d) == [i \in 1..Len(d) |-> d[i].key]

OpenAIBlog == <<"openai", "_", "blog">>
OpenAIResearch == <<"openai", "_", "research">>
OpenAIOrigin == <<"https:", "//", "openai", ".", "com">>

BuiltinBlog ==
    SiteConfig(OpenAIBlog, OpenAIOrigin \o <<"/", "news", "/", "rss.xml">>,
               <<"item">>, <<"title">>, <<"link">>, <<"description">>,
               OpenAIOrigin)

BuiltinResearch ==
    SiteConfig(OpenAIResearch, OpenAIOrigin \o <<"/", "research", "/", "rss.xml">>,
               <<"item">>, <<"title">>, <<"link">>, <<"description">>,
               OpenAIOrigin)

\* register_site
register_site(d, cfg) == DictSet(d, cfg.name, cfg)

\* _register_builtin_sites on the empty dict
BuiltinSites == register_site(register_site(<<>>, BuiltinBlog), BuiltinResearch)

NoCall == [op |-> "none"]

\* the threads that may run export_site_items side by side
Threads == {"t1", "t2", "t3"}

\* a thread outside export_site_items
Idle == [pc |-> "idle", buffer |-> <<>>, seq |-> 0]

InitClient ==
    /\ site_configs = BuiltinSites
    /\ fs = [p \in {} |-> <<>>]
    /\ last = NoCall
    /\ firstReg = <<OpenAIBlog, OpenAIResearch>>
    /\ lastReg = BuiltinSites
    /\ thr = [t \in Threads |-> Idle]

---------------------------------------------------------------------------
\* CustomSiteClient.fetch_site_items and export_site_items

\* the i-th item of a feed
FeedItem(i) ==
    Node("item",
         <<El("title", {}, <<"t", ToString(i), WS>>)>>
           \o (IF i % 2 = 0
               THEN <<El("link", Href(AbsLink \o <<"/", ToString(i)>>), <<>>)>>
               ELSE <<El("link", {}, <<>>)>>)
           \o (IF i % 3 = 0 THEN <<El("description", {}, <<"d", ToString(i)>>)>>
               ELSE <<>>))

\* a feed of n items after a channel title that is no item
Feed(n) == <<El("title", {}, <<"feed">>)>> \o [i \in 1..n |-> FeedItem(i)]

\* BeautifulSoup(response.text, "html.parser")
Soup(resp) == Feed(resp.size)

\* limit: int = 30
Limit == 30

\* what session.get, raise_for_status and BeautifulSoup do with a response
Raises(resp) ==
    CASE resp.kind = "timeout" -> "Timeout"
      [] resp.kind = "http_error" -> "HTTPError"
      [] resp.kind = "unparsable" -> "RecursionError"
      [] OTHER -> "none"

\* a slice one too long
TruncateOffByOne(items, limit) ==
    SubSeq(items, 1, IF Len(items) < limit + 1 THEN Len(items) ELSE limit + 1)

\* items[:limit]
Truncate(items, limit) ==
    SubSeq(items, 1, IF Len(items) < limit THEN Len(items) ELSE limit)

\* an except clause for the status check alone
FetchCatchesOnlyHTTPError(exc) == exc = "HTTPError"

\* the except clause of fetch_site_items: except Exception
FetchCatches(exc) == exc # "none"

\* fetch_site_items(site_name): the exception that leaves it, the list it
\* returns, and whether it sent a request
fetch_site_items(d, site_name, resp, limit) ==
    LET cfg == DictGet(d, site_name)
    IN  IF ~DictHas(d, site_name)
        THEN [exc |-> "ValueError", items |-> <<>>, requested |-> FALSE]
        ELSE IF Raises(resp) # "none"
        THEN [exc |-> IF FetchCatches(Raises(resp)) THEN "none" ELSE Raises(resp),
              items |-> <<>>, requested |-> TRUE]
        ELSE [exc |-> "none",
              items |-> Truncate(ParseAll(Soup(resp), cfg), limit),
              requested |-> TRUE]

\* datetime.now(): the clock stands still over the calls modelled
Today == <<"2024-08-01">>
NowHour == <<"09">>

\* os.path.join("custom_sites", site_name, date) and f"{hour}.md"
FilePath(site_name, date, hour) == <<"custom_sites", site_name, date, hour, ".md">>

\* enumerate(items, start=1)
FirstIndex == 1

\* the lines written for one item
ItemLines(idx, item) ==
    <<[kind |-> "entry", idx |-> idx, title |-> item.title, link |-> item.link]>>
      \o (IF item.summary # <<>>
          THEN <<[kind |-> "summary", text |-> item.summary]>> ELSE <<>>)

RECURSIVE WriteItems(_, _, _)
WriteItems(items, i, out) ==
    IF i > Len(items) THEN out
    ELSE WriteItems(items, i + 1, out \o ItemLines(FirstIndex + i - 1, items[i]))

\* everything the with block writes
Rendered(site_name, date, hour, items) ==
    WriteItems(items, 1,
               <<[kind |-> "h1", site |-> site_name, date |-> date, hour |-> hour]>>)

\* an open that keeps the content
OpenKeeping(content) == content

\* open(file_path, "w"): the content the file has once it is open
OpenTruncating(content) == <<>>

\* a write of data at an offset into a file
WriteAt(content, offset, data) ==
    SubSeq(content, 1, offset) \o data
      \o SubSeq(content, offset + Len(data) + 1, Len(content))

FileAt(files, path) == IF path \in DOMAIN files THEN files[path] ELSE <<>>

PutFile(files, path, content) ==
    [p \in DOMAIN files \cup {path} |-> IF p = path THEN content ELSE files[p]]

\* no except clause
ExportCatchesNothing(exc) == FALSE

\* the except clause of export_site_items: except ValueError
ExportCatches(exc) == exc = "ValueError"

\* export_site_items(site_name, date, hour): the exception that leaves it, the
\* value it returns (None or the path) and the files after it
export_site_items(d, files, site_name, date, hour, resp) ==
    LET f == fetch_site_items(d, site_name, resp, Limit)
        dt == IF date = None THEN Today ELSE date
        hr == IF hour = None THEN NowHour ELSE hour
        path == FilePath(site_name, dt, hr)
        opened == OpenTruncating(FileAt(files, path))
    IN  IF f.exc # "none"
        THEN [exc |-> IF ExportCatches(f.exc) THEN "none" ELSE f.exc,
              result |-> None, files |-> files]
        ELSE IF f.items = <<>>
        THEN [exc |-> "none", result |-> None, files |-> files]
        ELSE [exc |-> "none", result |-> path,
              files |-> PutFile(files, path,
                                WriteAt(opened, 0,
                                        Rendered(site_name, dt, hr, f.items)))]

---------------------------------------------------------------------------
\* gradio_server: generate_custom_site_report

\* _normalize_site_name(raw_name, fallback_url)
_normalize_site_name(raw_name, fallback_url) ==
    LET name == Lower(Strip(Or(raw_name, <<>>)))
        host == urlparse(fallback_url).netloc
    IN  Replace(IF name = <<>> THEN Replace(host, ".", "_") ELSE name, WS, "_")

\* whether the handler takes the ad-hoc branch
UsesCustom(in) ==
    /\ Truthy(in.custom_site_url)
    /\ Truthy(in.custom_item_selector)
    /\ Truthy(in.custom_title_selector)

\* whether the handler refuses the ad-hoc URL
InvalidUrl(in) ==
    LET parsed_url == urlparse(Strip(in.custom_site_url))
    IN  parsed_url.scheme = <<>> \/ parsed_url.netloc = <<>>

\* the SiteConfig the handler registers
CustomConfig(in) ==
    LET parsed_url == urlparse(Strip(in.custom_site_url))
        resolved_base_url ==
            Or(Strip(Or(in.custom_base_url, <<>>)),
               parsed_url.scheme \o <<"//">> \o parsed_url.netloc)
        summary == Strip(Or(in.custom_summary_selector, <<>>))
    IN  SiteConfig(_normalize_site_name(in.custom_site_name, in.custom_site_url),
                   Strip(in.custom_site_url),
                   Strip(in.custom_item_selector),
                   Strip(in.custom_title_selector),
                   Strip(Or(in.custom_link_selector, <<"a">>)),
                   IF summary = <<>> THEN None ELSE summary,
                   resolved_base_url)

---------------------------------------------------------------------------
\* Inputs of the client calls

MaxSmall == 2
MaxUnder == 1
MaxOver == 2

NoResponse == [kind |-> "none", size |-> 0]

\* what a request meets: a failure, or a feed of one of the sizes
ResponsesOf(sizes) ==
    { [kind |-> k, size |-> 0] : k \in {"timeout", "http_error", "unparsable"} }
      \cup { [kind |-> "ok", size |-> n] : n \in sizes }

\* short feeds
Responses == ResponsesOf(0..MaxSmall)

\* feeds around the limit
LimitResponses ==
    ResponsesOf((0..1) \cup ((Limit - MaxUnder)..(Limit + MaxOver)))

Unknown == <<"nosuch">>
SiteCom == <<"site", "_", "com">>
SiteNames == { OpenAIBlog, SiteCom, Unknown }

\* the form left empty
EmptyForm ==
    [ site_name |-> <<>>, custom_site_name |-> <<>>, custom_site_url |-> <<>>,
      custom_item_selector |-> <<>>, custom_title_selector |-> <<>>,
      custom_link_selector |-> <<>>, custom_summary_selector |-> <<>>,
      custom_base_url |-> <<>> ]

\* the form with the rules of an ad-hoc site
CustomForm(name, url, base) ==
    [ EmptyForm EXCEPT !.custom_site_name = name, !.custom_site_url = url,
                       !.custom_item_selector = <<"item">>,
                       !.custom_title_selector = <<WS, "title">>,
                       !.custom_summary_selector = <<"description", WS>>,
                       !.custom_base_url = base ]

HandlerInputs ==
    { EmptyForm, [EmptyForm EXCEPT !.site_name = OpenAIBlog],
      CustomForm(<<>>, <<"site", ".", "com">>, <<>>) }
      \cup { CustomForm(n, SiteUrl \o <<WS>>, b) :
                n \in { <<>>, <<WS, "OpenAI", WS, "Blog", WS>> },
                b \in { <<>>, BaseUrl } }

---------------------------------------------------------------------------
\* The client calls as steps

\* the record of a client call
Call(op, site_name, date, hour, resp, exc, result, items, again) ==
    [op |-> op, site |-> site_name, date |-> date, hour |-> hour,
     resp |-> resp, exc |-> exc, result |-> result, items |-> items,
     again |-> again]

\* the hour-bucket file of an export call
Bucket(call) ==
    FilePath(call.site, IF call.date = None THEN Today ELSE call.date,
             IF call.hour = None THEN NowHour ELSE call.hour)

\* the response a call took: none when it sent no request
Taken(d, site_name, resp) == IF DictHas(d, site_name) THEN resp ELSE NoResponse

\* the bookkeeping of one register_site call
Registered(cfg) ==
    /\ site_configs' = register_site(site_configs, cfg)
    /\ firstReg' = IF \E i \in 1..Len(firstReg) : firstReg[i] = cfg.name
                   THEN firstReg ELSE Append(firstReg, cfg.name)
    /\ lastReg' = [i \in 1..Len(firstReg') |->
                     IF firstReg'[i] = cfg.name
                     THEN [key |-> cfg.name, value |-> cfg] ELSE lastReg[i]]

\* one export_site_items call against the dict d
Exported(d, site_name, date, hour, resp) ==
    LET e == export_site_items(d, fs, site_name, date, hour, resp)
        call == Call("export", site_name, date, hour,
                     Taken(d, site_name, resp), e.exc, e.result, <<>>, FALSE)
    IN  /\ fs' = e.files
        /\ last' = [call EXCEPT !.again =
                                   last.op = "export" /\ Bucket(last) = Bucket(call)]

\* client.fetch_site_items(site_name)
FetchSiteItems(site_name, resp) ==
    LET f == fetch_site_items(site_configs, site_name, resp, Limit)
    IN  /\ last' = Call("fetch", site_name, None, None,
                        IF f.requested THEN resp ELSE NoResponse,
                        f.exc, None, f.items, FALSE)
        /\ UNCHANGED <<site_configs, fs, firstReg, lastReg,
                       html, config, parsed, ppc, thr>>

\* client.export_site_items(site_name, date, hour)
ExportSiteItems(site_name, date, hour, resp) ==
    /\ Exported(site_configs, site_name, date, hour, resp)
    /\ UNCHANGED <<site_configs, firstReg, lastReg, html, config, parsed, ppc, thr>>

\* generate_custom_site_report with an ad-hoc site that it registers
ReportCustom(in, resp) ==
    /\ UsesCustom(in)
    /\ ~InvalidUrl(in)
    /\ Registered(CustomConfig(in))
    /\ Exported(site_configs', CustomConfig(in).name, None, None, resp)
    /\ UNCHANGED <<html, config, parsed, ppc, thr>>

\* generate_custom_site_report with a site chosen from the list
ReportChosen(in, resp) ==
    /\ ~UsesCustom(in)
    /\ Truthy(in.site_name)
    /\ Exported(site_configs, in.site_name, None, None, resp)
    /\ UNCHANGED <<site_configs, firstReg, lastReg, html, config, parsed, ppc, thr>>

\* generate_custom_site_report returning its message before any client call
ReportRefused(in) ==
    /\ \/ UsesCustom(in) /\ InvalidUrl(in)
       \/ ~UsesCustom(in) /\ ~Truthy(in.site_name)
    /\ last' = NoCall
    /\ UNCHANGED <<site_configs, fs, firstReg, lastReg,
                   html, config, parsed, ppc, thr>>

Init ==
    /\ InitClient
    /\ html = <<>>
    /\ config = None
    /\ parsed = <<>>
    /\ ppc = "idle"

Next ==
    \/ \E n \in SiteNames, r \in Responses : FetchSiteItems(n, r)
    \/ \E n \in SiteNames, r \in Responses : ExportSiteItems(n, None, None, r)
    \/ \E in \in HandlerInputs, r \in Responses : ReportCustom(in, r)
    \/ \E in \in HandlerInputs, r \in Responses : ReportChosen(in, r)
    \/ \E in \in HandlerInputs : ReportRefused(in)

Spec == Init /\ [][Next]_vars

\* the built-in site answering with feeds around the limit
NextLimit ==
    \/ \E r \in LimitResponses : FetchSiteItems(OpenAIBlog, r)
    \/ \E r \in LimitResponses : ExportSiteItems(OpenAIBlog, None, None, r)
    \/ \E r \in LimitResponses : ExportSiteItems(OpenAIResearch, Today, NowHour, r)

SpecLimit == Init /\ [][NextLimit]_vars

---------------------------------------------------------------------------
\* Threads in export_site_items for the same site in the same hour.
\* Each thread has its own file object: open truncates the file, the writes
\* of the with block collect in the object's buffer, and leaving the block
\* flushes the buffer at the object's own offset, which is 0.

\* the shared hour-bucket
SharedPath == FilePath(OpenAIBlog, Today, NowHour)

\* how many threads have closed their file
Closed == Cardinality({ t \in Threads : thr[t].seq > 0 })

\* lines 135-141: the fetch, and the return of None without items
CFetch(t, resp) ==
    /\ thr[t].pc = "idle"
    /\ LET f == fetch_site_items(site_configs, OpenAIBlog, resp, Limit)
       IN  thr' = [thr EXCEPT ![t] =
                     IF f.exc # "none" \/ f.items = <<>>
                     THEN [pc |-> "none", buffer |-> <<>>, seq |-> 0]
                     ELSE [pc |-> "fetched",
                           buffer |-> Rendered(OpenAIBlog, Today, NowHour, f.items),
                           seq |-> 0]]
    /\ UNCHANGED <<site_configs, fs, last, firstReg, lastReg,
                   html, config, parsed, ppc>>

\* line 152: open(file_path, "w")
COpen(t) ==
    /\ thr[t].pc = "fetched"
    /\ fs' = PutFile(fs, SharedPath, OpenTruncating(FileAt(fs, SharedPath)))
    /\ thr' = [thr EXCEPT ![t].pc = "open"]
    /\ UNCHANGED <<site_configs, last, firstReg, lastReg,
                   html, config, parsed, ppc>>

\* lines 153-157 and the end of the with block: the buffer reaches the file
CClose(t) ==
    /\ thr[t].pc = "open"
    /\ fs' = PutFile(fs, SharedPath, WriteAt(FileAt(fs, SharedPath), 0, thr[t].buffer))
    /\ thr' = [thr EXCEPT ![t].pc = "closed", ![t].seq = Closed + 1]
    /\ UNCHANGED <<site_configs, last, firstReg, lastReg,
                   html, config, parsed, ppc>>

NextConc ==
    \/ \E t \in Threads, r \in Responses : CFetch(t, r)
    \/ \E t \in Threads : COpen(t)
    \/ \E t \in Threads : CClose(t)

SpecConc == Init /\ [][NextConc]_vars

---------------------------------------------------------------------------
\* _parse_items as a function of (html, config)

InitParse ==
    /\ InitClient
    /\ html \in Docs
    /\ config \in ParseConfigs
    /\ parsed = <<>>
    /\ ppc = "ready"

ParseItems ==
    /\ ppc = "ready"
    /\ parsed' = ParseAll(html, config)
    /\ ppc' = "done"
    /\ UNCHANGED <<site_configs, fs, last, firstReg, lastReg,
                   html, config, thr>>

NextParse == ParseItems

SpecParse == InitParse /\ [][NextParse]_vars


---------------------------------------------------------------------------
\* Properties of _parse_items (specification SpecParse)

\* the item nodes of the call
ItemNodes == select(html, config.item_selector)

\* the places of a node's children that a selector matches
Matches(node, selector) ==
    { j \in 1..Len(node.children) : <<node.children[j].tag>> = selector }

Least(S) == CHOOSE i \in S : \A j \in S : i <= j

\* the trimmed text of the first title match, <<>> when there is no match
TitleOf(node) ==
    LET m == Matches(node, config.title_selector)
    IN  IF m = {} THEN <<>> ELSE Strip(node.children[Least(m)].text)

\* the item nodes, by place, that have a non-empty trimmed title
Passing == { i \in 1..Len(ItemNodes) : TitleOf(ItemNodes[i]) # <<>> }

\* the place in the document of the k-th passing item node
KthPassing(k) ==
    CHOOSE i \in Passing : Cardinality({ j \in Passing : j <= i }) = k

\* the raw link the claim describes for an item node with a title
ExpectedRawLink(node) ==
    LET sel == IF config.link_selector = <<>> \/ config.link_selector = None
               THEN config.title_selector ELSE config.link_selector
        m == Matches(node, sel)
    IN  IF m = {} THEN <<>>
        ELSE LET el == node.children[Least(m)]
                 hrefs == { a.value : a \in { x \in el.attrs : x.name = "href" } }
                 href == IF hrefs = {} THEN <<>> ELSE Strip(CHOOSE h \in hrefs : TRUE)
             IN  IF href # <<>> THEN href ELSE Strip(el.text)

\* scheme and host of an absolute URL
Origin(url) ==
    LET stop == CHOOSE i \in 3..(Len(url) + 1) :
                    /\ i = Len(url) + 1 \/ url[i] = "/"
                    /\ \A j \in 3..(i - 1) : url[j] # "/"
    IN  SubSeq(url, 1, stop - 1)

\* the directory of an absolute URL: everything through its last "/"
Directory(url) ==
    IF Origin(url) = url THEN url \o <<"/">>
    ELSE SubSeq(url, 1, CHOOSE i \in 1..Len(url) :
                            url[i] = "/" /\ \A j \in (i + 1)..Len(url) : url[j] # "/")

\* standard resolution of a non-empty reference against an absolute base
Resolved(base, ref) ==
    IF ref[1] \in Schemes THEN ref
    ELSE IF ref[1] = "/" THEN Origin(base) \o ref
    ELSE Directory(base) \o ref

\* C1: when _parse_items has returned, every Item has a non-empty title and
\* there are exactly as many Items as item nodes whose first title match
\* exists and has non-empty trimmed text: a node without one emits nothing
C1_TitleGate ==
    ppc = "done" =>
        /\ \A k \in 1..Len(parsed) : parsed[k].title # <<>>
        /\ Len(parsed) = Cardinality(Passing)

\* a call over a node without title match, a node whose first title is
\* blank, and a node that passes
C1_Witness ==
    /\ ppc = "done"
    /\ Len(parsed) = 1
    /\ \E i \in 1..Len(ItemNodes) :
          Matches(ItemNodes[i], config.title_selector) = {}
    /\ \E i \in 1..Len(ItemNodes) :
          /\ Matches(ItemNodes[i], config.title_selector) # {}
          /\ TitleOf(ItemNodes[i]) = <<>>

\* C6: the returned sequence is the sequence of the passing item nodes in
\* document order: its k-th Item carries the title of the k-th passing node,
\* equal Items included
C6_OrderPreserved ==
    ppc = "done" =>
        /\ Len(parsed) = Cardinality(Passing)
        /\ \A k \in 1..Len(parsed) :
              parsed[k].title = TitleOf(ItemNodes[KthPassing(k)])

\* three Items, the first and the last equal, the middle one different
C6_Witness ==
    /\ ppc = "done"
    /\ Len(parsed) = 3
    /\ parsed[1] = parsed[3]
    /\ parsed[1] # parsed[2]

\* C9 as stated: without base_url a link is resolved against the origin of
\* config.url, with base_url against base_url
C9_OriginDefault ==
    ppc = "done" =>
        \A k \in 1..Len(parsed) :
            LET raw == ExpectedRawLink(ItemNodes[KthPassing(k)])
                base == IF config.base_url = None
                        THEN Origin(config.url) ELSE config.base_url
            IN  raw # <<>> => parsed[k].link = Resolved(base, raw)

\* C9 amended: without base_url a link is resolved against config.url itself
\* (path-relative links against its directory), with base_url against base_url
C9_LinkBase ==
    ppc = "done" =>
        \A k \in 1..Len(parsed) :
            LET raw == ExpectedRawLink(ItemNodes[KthPassing(k)])
                base == IF config.base_url = None
                        THEN config.url ELSE config.base_url
            IN  raw # <<>> => parsed[k].link = Resolved(base, raw)

\* a path-relative link resolved under a config without base_url
C9_Witness ==
    /\ ppc = "done"
    /\ config.base_url = None
    /\ \E k \in 1..Len(parsed) :
          /\ ExpectedRawLink(ItemNodes[KthPassing(k)]) = <<"p">>
          /\ parsed[k].link = Directory(SiteUrl) \o <<"p">>

\* C10: the link of every Item comes from the href of its link node, or from
\* the node's text when the trimmed href is empty; without link node, or with
\* both empty, the Item is emitted with the empty link
C10_DualLink ==
    ppc = "done" =>
        \A k \in 1..Len(parsed) :
            LET raw == ExpectedRawLink(ItemNodes[KthPassing(k)])
            IN  parsed[k].link =
                    IF raw = <<>> THEN <<>> ELSE urljoin(LinkBase(config), raw)

\* an Item whose link node has a blank href and the link in its text
C10_Witness ==
    /\ ppc = "done"
    /\ config.link_selector = <<"a">>
    /\ \E k \in 1..Len(parsed) :
          LET node == ItemNodes[KthPassing(k)]
              m == Matches(node, <<"a">>)
          IN  /\ m # {}
              /\ node.children[Least(m)].attrs = Href(<<WS>>)
              /\ parsed[k].link = AbsLink


---------------------------------------------------------------------------
\* Properties of the client calls (specifications Spec and SpecLimit)

\* whether the site of the last call is registered
Known == DictHas(site_configs, last.site)

\* everything _parse_items extracts from the response of a call under d
Extracted(d, call) ==
    IF DictHas(d, call.site) /\ call.resp.kind = "ok"
    THEN ParseAll(Soup(call.resp), DictGet(d, call.site))
    ELSE <<>>

Min(a, b) == IF a < b THEN a ELSE b

\* the lines of a file that render an item
Entries(content) == SelectSeq(content, LAMBDA l : l.kind = "entry")

\* C2: fetch_site_items lets an exception out exactly when the name is not
\* registered, and then before any request; for a registered name a failed
\* request, status check or parse ends in the empty list
C2_FetchFailSoft ==
    last.op = "fetch" =>
        /\ last.exc # "none" <=> ~Known
        /\ ~Known => last.exc = "ValueError" /\ last.resp = NoResponse
        /\ Known /\ last.resp.kind # "ok" => last.items = <<>>

\* a fetch of a registered site whose response cannot be parsed
C2_Witness ==
    /\ last.op = "fetch"
    /\ Known
    /\ last.resp.kind = "unparsable"
    /\ last.exc = "none"
    /\ last.items = <<>>

\* C3: export_site_items lets no exception out; it returns None exactly when
\* the name is unknown or no item was produced, and otherwise the path of a
\* file that exists
C3_ExportFailSoft ==
    last.op = "export" =>
        /\ last.exc = "none"
        /\ last.result = None <=> (~Known \/ Extracted(site_configs, last) = <<>>)
        /\ last.result # None =>
              last.result = Bucket(last) /\ Bucket(last) \in DOMAIN fs

\* an export of an unknown site that returned None
C3_Witness ==
    /\ last.op = "export"
    /\ ~Known
    /\ last.exc = "none"
    /\ last.result = None

\* C4 as stated: after a second export call for a bucket the file exists and
\* holds what the second call produced
C4_SecondCallOnly ==
    last.op = "export" /\ last.again =>
        /\ Bucket(last) \in DOMAIN fs
        /\ fs[Bucket(last)] =
              Rendered(last.site, Today, NowHour,
                       Truncate(Extracted(site_configs, last), Limit))

\* C4 amended: an export call that follows an export call for the same bucket
\* and produces an item leaves the file holding its own content only; one that
\* produces no item leaves every file as it was
C4_LastWriteWins ==
    [][ (last.op = "export" /\ last'.op = "export" /\ Bucket(last) = Bucket(last'))
          => LET items == Truncate(Extracted(site_configs', last'), Limit)
             IN  IF items = <<>> THEN fs' = fs
                 ELSE fs' = PutFile(fs, Bucket(last'),
                                    Rendered(last'.site, Today, NowHour, items))
      ]_vars

\* a second export for a bucket that wrote a one-item file
C4_Witness ==
    /\ last.op = "export"
    /\ last.again
    /\ last.resp.size = 1
    /\ last.result = Bucket(last)
    /\ Len(Entries(fs[Bucket(last)])) = 1

\* C5: the dict holds every name once, in the order of first registration,
\* each with the config registered last under it, and list_sites returns
\* exactly these names in this order
C5_RegistryLastWriteWins ==
    /\ DictKeys(site_configs) = firstReg
    /\ \A i, j \in 1..Len(site_configs) :
          site_configs[i].key = site_configs[j].key => i = j
    /\ \A i \in 1..Len(firstReg) :
          DictGet(site_configs, firstReg[i]) = lastReg[i].value

\* the built-in openai_blog replaced by an ad-hoc config, after site_com
\* was registered and registered again with another base
C5_Witness ==
    /\ DictKeys(site_configs) = <<OpenAIBlog, OpenAIResearch, SiteCom>>
    /\ DictGet(site_configs, OpenAIBlog) # BuiltinBlog
    /\ DictGet(site_configs, SiteCom).base_url = BaseUrl
    /\ DictGet(site_configs, OpenAIBlog).base_url # BaseUrl

\* C7: the exported file holds min(N, 30) entries for the N extracted items,
\* the k-th entry is numbered k and renders the k-th extracted item; the list
\* fetch_site_items returns is the first min(N, 30) of what _parse_items
\* returns, which is not cut
C7_Truncation ==
    LET all == Extracted(site_configs, last)
        n == Len(all)
    IN  /\ last.op = "export" /\ last.result # None =>
              LET entries == Entries(fs[Bucket(last)])
              IN  /\ Len(entries) = Min(n, Limit)
                  /\ \A k \in 1..Len(entries) :
                        /\ entries[k].idx = k
                        /\ entries[k].title = all[k].title
                        /\ entries[k].link = all[k].link
        /\ last.op = "fetch" /\ last.exc = "none" /\ last.resp.kind = "ok" =>
              /\ n = last.resp.size
              /\ last.items = SubSeq(all, 1, Min(n, Limit))

\* an export of a feed of more than 30 items
C7_Witness ==
    /\ last.op = "export"
    /\ last.resp.size = Limit + 2
    /\ last.result # None
    /\ Len(Entries(fs[Bucket(last)])) = Limit

---------------------------------------------------------------------------
\* Property of concurrent exports (specification SpecConc)

\* the threads that wrote the file
Writers == { t \in Threads : thr[t].pc = "closed" }

\* C8: once every thread has left export_site_items, the file holds exactly
\* the content of the thread that closed it last
C8_LastWriterWins ==
    (\A t \in Threads : thr[t].pc \in {"closed", "none"}) /\ Writers # {} =>
        \E t \in Writers :
            /\ \A u \in Writers : thr[u].seq <= thr[t].seq
            /\ fs[SharedPath] = thr[t].buffer

=============================================================================
